---- MODULE Spec2Model ----
(***************************************************************************)
(* A model of src/pty/ptyd.c: the pty bridge.  The bridge allocates a pty, *)
(* forks a child on its slave side and then runs one loop that polls the   *)
(* child, waits for readiness, decodes framed controller input into pty    *)
(* writes, resizes and signals, and relays pty output to controller        *)
(* output unframed.                                                        *)
(*                                                                         *)
(* The bridge is modelled one system call at a time; the child, the        *)
(* controller and the kernel's pty queues are the environment.             *)
(***************************************************************************)
EXTENDS Integers, Sequences, FiniteSets, TLC

\* ------------------------------------------------------------------ bounds
\* longest controller input stream of the decoder specification
MaxStream == 5
\* bytes the pty input queue holds before a write to the master blocks
PtyInCap == 2
\* bytes the pty output queue holds before the child's write blocks
PtyOutCap == 2
\* bytes the child writes in a run
MaxChildOut == 2
\* bytes a write may read past the end of the buffered bytes
MaxOverrun == 2
\* bytes appended to the frame buffer in the frame buffer specification
MaxAppended == 7

\* ------------------------------------------------------- program constants
OPCODE_DATA == 1
OPCODE_RESIZE == 2
OPCODE_CLOSE == 3
\* parser_init(&p, 8192)
InitCap == 8192
\* uint8_t io_buf[65536]
IoBufSize == 65536
SIGHUP == 1
SIGWINCH == 28
\* 16-bit limb of a 32-bit unsigned value
Limb == 65536

\* the child's pid, and the process group it is born into
ChildPid == 2
ParentPgid == 1

\* a byte read from beyond the buffered bytes: its value is indeterminate
Garbage == -1

\* ------------------------------------------------------ 32-bit arithmetic
\* A uint32_t is kept as two 16-bit limbs, so that 5 + n wraps exactly as the
\* C expression does.
U32(hi, lo) == [hi |-> hi, lo |-> lo]

\* ((uint32_t)b1 << 24) | (b2 << 16) | (b3 << 8) | b4
be32(b1, b2, b3, b4) == U32(b1 * 256 + b2, b3 * 256 + b4)

\* the two bytes taken low byte first
be16_le(b1, b2) == b2 * 256 + b1

\* (uint16_t)((b1 << 8) | b2)
be16(b1, b2) == b1 * 256 + b2

\* k + n in uint32_t arithmetic: the sum wraps modulo 2^32
add32(k, n) == U32((n.hi + ((n.lo + k) \div Limb)) % Limb, (n.lo + k) % Limb)

\* len < x, for a length len below 2^16 and a 32-bit x
LtU32(len, x) == x.hi > 0 \/ len < x.lo

\* x >= len
GeU32(x, len) == x.hi > 0 \/ x.lo >= len

\* ------------------------------------------------------------ frame buffer
\* struct parser: buf[0, len) is the sequence buf; live says buf is allocated
parser_init(cap) == [buf |-> <<>>, cap |-> cap, live |-> TRUE]

parser_deinit(p) == [buf |-> <<>>, cap |-> 0, live |-> FALSE]

\* a growth that doubles once and does not look at the size again
GrowCap_once(next_cap, need) == next_cap

RECURSIVE GrowCap(_, _)
GrowCap(next_cap, need) == IF next_cap < need THEN GrowCap(next_cap * 2, need) ELSE next_cap

\* parser_append: ret 0 and the new parser, or ret -1 with the parser unchanged
\* when the buffer must grow and realloc fails (allocOk = FALSE)
parser_append(p, data, allocOk) ==
    IF Len(data) = 0 THEN [ret |-> 0, p |-> p]
    ELSE IF Len(p.buf) + Len(data) > p.cap
         THEN IF allocOk
              THEN [ret |-> 0,
                    p |-> [p EXCEPT !.buf = p.buf \o data,
                                    !.cap = GrowCap(p.cap * 2, Len(p.buf) + Len(data))]]
              ELSE [ret |-> -1, p |-> p]
         ELSE [ret |-> 0, p |-> [p EXCEPT !.buf = p.buf \o data]]

\* a consume that shortens the length without moving the bytes down
parser_consume_nomove(p, n) ==
    IF GeU32(n, Len(p.buf)) THEN [p EXCEPT !.buf = <<>>]
    ELSE [p EXCEPT !.buf = SubSeq(p.buf, 1, Len(p.buf) - n.lo)]

\* parser_consume(p, n) for a 32-bit n
parser_consume(p, n) ==
    IF GeU32(n, Len(p.buf)) THEN [p EXCEPT !.buf = <<>>]
    ELSE [p EXCEPT !.buf = SubSeq(p.buf, n.lo + 1, Len(p.buf))]

\* how many bytes parser_consume(p, n) is to remove: n, or all of them
Removed(p, n) == IF GeU32(n, Len(p.buf)) THEN Len(p.buf) ELSE n.lo

\* ---------------------------------------------------------------- decoder
\* the length field of a Data frame whose header is buffered
DataLen(buf) == be32(buf[2], buf[3], buf[4], buf[5])

\* (size_t)(5 + n): the sum is made in uint32_t, then widened
DataNeed(buf) == add32(5, DataLen(buf))

\* a decoder that returns when it finds a Close frame at the front
FrontKind_closewait(buf) ==
    IF Len(buf) = 0 THEN "empty"
    ELSE IF buf[1] = OPCODE_DATA
         THEN IF Len(buf) < 5 THEN "wait"
              ELSE IF LtU32(Len(buf), add32(5, be32(buf[2], buf[3], buf[4], buf[5]))) THEN "wait" ELSE "data"
    ELSE IF buf[1] = OPCODE_RESIZE
         THEN IF Len(buf) < 5 THEN "wait" ELSE "resize"
    ELSE IF buf[1] = OPCODE_CLOSE THEN "wait"
    ELSE "skip"

\* What one pass of the loop of parse_and_apply_frames finds at the front of
\* the buffer: "empty", "wait" (return 0), "data", "resize", "close", "skip".
FrontKind(buf) ==
    IF Len(buf) = 0 THEN "empty"
    ELSE IF buf[1] = OPCODE_DATA
         THEN IF Len(buf) < 5 THEN "wait"
              ELSE IF LtU32(Len(buf), DataNeed(buf)) THEN "wait" ELSE "data"
    ELSE IF buf[1] = OPCODE_RESIZE
         THEN IF Len(buf) < 5 THEN "wait" ELSE "resize"
    ELSE IF buf[1] = OPCODE_CLOSE THEN "close"
    ELSE "skip"

\* ------------------------------------------------------------- write_all
\* The byte write() takes from buf + off + i: past the buffered bytes the value
\* is indeterminate.
ByteAt(src, i) == IF i <= Len(src) THEN src[i] ELSE Garbage

\* a write that takes its bytes from buf instead of buf + off
write_bytes_restart(src, off, k) == [i \in 1..k |-> ByteAt(src, i)]

\* the k bytes one write(fd, buf + off, len - off) call transfers
write_bytes(src, off, k) == [i \in 1..k |-> ByteAt(src, off + i)]

\* ---------------------------------------------------------- signal_child
\* signal_child(pid, sig): pgid is getpgid's result (-1 on failure), killOk
\* whether kill/killpg succeeds.  sent is what was delivered, if anything.
signal_child(pid, sig, pgid, killOk) ==
    IF pgid < 0 THEN [ret |-> -1, sent |-> <<>>]
    ELSE IF pgid = pid
         THEN IF killOk THEN [ret |-> 0, sent |-> <<"killpg", pgid, sig>>]
              ELSE [ret |-> -1, sent |-> <<>>]
    ELSE IF killOk THEN [ret |-> 0, sent |-> <<"kill", pid, sig>>]
    ELSE [ret |-> -1, sent |-> <<>>]

\* ------------------------------------------------------- child_exit_code
\* The wait status the kernel reports: exit value v in bits 8..15, or the
\* terminating signal in bits 0..6 with the core flag in bit 7.
StatusExited(v) == (v % 256) * 256
StatusSignaled(s, core) == s + (IF core THEN 128 ELSE 0)
StatusStopped(s) == s * 256 + 127

WTERMSIG(status) == status % 128
WIFEXITED(status) == WTERMSIG(status) = 0
WEXITSTATUS(status) == (status \div 256) % 256
\* ((signed char)((status & 0x7f) + 1) >> 1) > 0
WIFSIGNALED(status) == WTERMSIG(status) # 0 /\ WTERMSIG(status) # 127

\* a mapping that returns the bare signal number
child_exit_code_nooffset(status) ==
    IF WIFEXITED(status) THEN WEXITSTATUS(status)
    ELSE IF WIFSIGNALED(status) THEN WTERMSIG(status)
    ELSE 1

child_exit_code(status) ==
    IF WIFEXITED(status) THEN WEXITSTATUS(status)
    ELSE IF WIFSIGNALED(status) THEN 128 + WTERMSIG(status)
    ELSE 1

\* ------------------------------------------------------------------ state
VARIABLES
    pc,          \* where main is: start, openpty, fork, init, poll, select,
                 \* stdin, parse, write_pty, pty, write_out, wait, exited
    exitCode,    \* main's return value, -1 while running
    exitVia,     \* which return statement ended main
    p,           \* struct parser p
    stdin_open,  \* bool stdin_open
    readfds,     \* fd_set readfds after select: [in, master]
    io,          \* the bytes of io_buf a read of the master filled
    off,         \* write_all's off
    status,      \* int status, as the last waitpid left it
    waited,      \* what the last waitpid returned
    res,         \* descriptors and allocations: acquisitions and releases
    child,       \* none, forked, running, zombie, reaped
    childStatus, \* the wait status of a terminated child
    slaveOpen,   \* some descriptor of the pty slave is open
    ptyIn,       \* bytes written to the master that the child has not read
    ptyOut,      \* bytes the child wrote that the bridge has not read
    childCnt,    \* how many bytes the child has written
    winsize,     \* the pty's window size <<cols, rows>>
    ctlScript,   \* the chunks the controller has yet to write, in order
    ctlIn,       \* controller input queued in the pipe, not read yet
    ctlEof,      \* the controller closes its end after the stream
    fed,         \* all bytes read from controller input so far
    effects,     \* what the bridge did to the pty and the child, in order
    ptyRead,     \* all bytes read from the master so far
    out,         \* all bytes written to controller output so far
    oob,         \* how many bytes were read past the buffered bytes
    consumed,    \* how many bytes parser_consume has removed from the buffer
    fault        \* the last call that failed other than by EINTR, "" if none

vars == <<pc, exitCode, exitVia, p, stdin_open, readfds, io, off, status, waited, res, child,
          childStatus, slaveOpen, ptyIn, ptyOut, childCnt, winsize, ctlScript, ctlIn,
          ctlEof, fed, effects, ptyRead, out, oob, consumed, fault>>

Min(a, b) == IF a < b THEN a ELSE b

\* ----------------------------------------------------- controller input
\* the bytes a controller may send in the decoder specification
Alphabet == {0, OPCODE_DATA, OPCODE_RESIZE, OPCODE_CLOSE, 255}

RECURSIVE SeqsUpTo(_, _)
SeqsUpTo(S, n) ==
    IF n = 0 THEN {<<>>}
    ELSE LET shorter == SeqsUpTo(S, n - 1)
         IN  shorter \cup {Append(s, b) : s \in {t \in shorter : Len(t) = n - 1}, b \in S}

\* a Data frame "abc", a Resize to 80 x 24 and a Close
FramesStream == <<1, 0, 0, 0, 3, 97, 98, 99, 2, 0, 80, 0, 24, 3>>

\* the header of a Data frame of 8192 bytes and 8188 bytes of its payload:
\* one byte more than the buffer's first capacity
BigStream == [i \in 1..(InitCap + 1) |-> IF i = 1 THEN OPCODE_DATA ELSE IF i = 4 THEN 32 ELSE 0]

\* one chunk per byte: the controller writes the stream a byte at a time, so
\* that a read can return any run of it
Bytewise(stream) == [i \in 1..Len(stream) |-> <<stream[i]>>]

\* a Resize to 80 x 24 and a Close, with no Data before them
SignalsStream == <<2, 0, 80, 0, 24, 3>>

\* what the controller writes in a session: nothing; the three frames in one
\* write; a noise byte and the three frames, cut inside the Data payload and
\* inside the Resize; the big stream; the two frames that signal the child
SessionScripts ==
    { <<>>,
      <<FramesStream>>,
      <<<<255>> \o SubSeq(FramesStream, 1, 6), SubSeq(FramesStream, 7, 10), SubSeq(FramesStream, 11, 14)>>,
      <<BigStream>>,
      <<SignalsStream>> }

\* a Data frame whose length field is 2^32 - 5, and one whose payload bytes
\* are opcodes, followed by a Close
WrapStream == <<1, 255, 255, 255, 251>>
PayloadStream == <<1, 0, 0, 0, 2, 3, 255, 3>>
\* a Data frame whose length field is 2^32 - 4, and one byte behind its header
WrapTailStream == <<1, 255, 255, 255, 252, 3>>

DecoderStreams ==
    SeqsUpTo(Alphabet, MaxStream) \cup {FramesStream, WrapStream, PayloadStream, WrapTailStream}

DecoderScripts == {Bytewise(s) : s \in DecoderStreams}

\* ------------------------------------------------------------ resources
NoRes == [masterOpened |-> FALSE, masterCloses |-> 0, bufCreated |-> FALSE, bufFrees |-> 0]

open_master(r) == [r EXCEPT !.masterOpened = TRUE]
close_master(r) == [r EXCEPT !.masterCloses = @ + 1]
create_buf(r) == [r EXCEPT !.bufCreated = TRUE]
free_buf(r) == [r EXCEPT !.bufFrees = @ + 1]

\* parser_deinit(&p); close(master_fd);
teardown(r) == close_master(free_buf(r))

\* a cleanup that forgets the descriptor
cleanup_init_fail_leak(r) == r

\* the cleanup when parser_init fails: close(master_fd)
cleanup_init_fail(r) == close_master(r)

\* ------------------------------------------------------------------ init
InitCommon ==
    /\ exitCode = -1
    /\ exitVia = ""
    /\ stdin_open = TRUE
    /\ readfds = [in |-> FALSE, master |-> FALSE]
    /\ io = <<>>
    /\ off = 0
    /\ status = 0
    /\ waited = 0
    /\ childStatus = 0
    /\ ptyIn = <<>>
    /\ ptyOut = <<>>
    /\ childCnt = 0
    /\ winsize = <<0, 0>>
    /\ fed = <<>>
    /\ effects = <<>>
    /\ ptyRead = <<>>
    /\ out = <<>>
    /\ oob = 0
    /\ consumed = 0
    /\ fault = ""

\* the process at the top of main
Init ==
    /\ InitCommon
    /\ pc = "start"
    /\ p = [buf |-> <<>>, cap |-> 0, live |-> FALSE]
    /\ res = NoRes
    /\ child = "none"
    /\ slaveOpen = FALSE
    /\ ctlScript \in SessionScripts
    /\ ctlIn = <<>>
    /\ ctlEof \in BOOLEAN

\* the process at the top of the loop, the child running the target program
InitDec ==
    /\ InitCommon
    /\ pc = "poll"
    /\ p = parser_init(InitCap)
    /\ res = create_buf(open_master(NoRes))
    /\ child = "running"
    /\ slaveOpen = TRUE
    /\ ctlScript \in DecoderScripts
    /\ ctlIn = <<>>
    /\ ctlEof = FALSE

\* main returns code through the return statement named via
Return(code, via) ==
    /\ pc' = "exited"
    /\ exitCode' = code
    /\ exitVia' = via

\* --------------------------------------------------------- the environment
ExitValues == {0, 3}
TermSignals == {SIGHUP, 9}

\* the wait statuses of a child that ran the target program
RunStatuses ==
    {StatusExited(v) : v \in ExitValues}
        \cup {StatusSignaled(s, core) : s \in TermSignals, core \in BOOLEAN}

\* _exit(1) when the child's setup fails, _exit(127) when execvp fails
SetupStatuses == {StatusExited(1), StatusExited(127)}

\* the group the child was in when it was forked
ChildPgid_cached == ParentPgid

\* getpgid(pid) while the child exists: its own group once it called setsid
ChildPgid == IF child = "forked" THEN ParentPgid ELSE ChildPid

\* select's view of the two descriptors
StdinReadable == ctlIn # <<>> \/ (ctlScript = <<>> /\ ctlEof)
MasterReadable == ptyOut # <<>> \/ ~slaveOpen

\* the controller writes its next chunk to the bridge's standard input
ControllerWrite ==
    /\ ctlScript # <<>>
    /\ ctlIn' = ctlIn \o Head(ctlScript)
    /\ ctlScript' = Tail(ctlScript)
    /\ UNCHANGED <<consumed, pc, exitCode, exitVia, p, stdin_open, readfds, io, off, status, waited, res,
                   child, childStatus, slaveOpen, ptyIn, ptyOut, childCnt, winsize,
                   ctlEof, fed, effects, ptyRead, out, oob, fault>>

\* the child between fork and execvp: setsid, TIOCSCTTY, dup2, close
ChildSetup ==
    /\ child = "forked"
    /\ child' = "running"
    /\ UNCHANGED <<consumed, pc, exitCode, exitVia, p, stdin_open, readfds, io, off, status, waited, res,
                   childStatus, slaveOpen, ptyIn, ptyOut, childCnt, winsize, ctlScript, ctlIn,
                   ctlEof, fed, effects, ptyRead, out, oob, fault>>

ChildSetupFail ==
    /\ child = "forked"
    /\ \E st \in SetupStatuses : childStatus' = st
    /\ child' = "zombie"
    /\ slaveOpen' = FALSE
    /\ UNCHANGED <<consumed, pc, exitCode, exitVia, p, stdin_open, readfds, io, off, status, waited, res,
                   ptyIn, ptyOut, childCnt, winsize, ctlScript, ctlIn,
                   ctlEof, fed, effects, ptyRead, out, oob, fault>>

\* the child writes its next byte to its terminal
ChildWrite ==
    /\ child = "running"
    /\ slaveOpen
    /\ childCnt < MaxChildOut
    /\ Len(ptyOut) < PtyOutCap
    /\ childCnt' = childCnt + 1
    /\ ptyOut' = Append(ptyOut, childCnt + 1)
    /\ UNCHANGED <<consumed, pc, exitCode, exitVia, p, stdin_open, readfds, io, off, status, waited, res,
                   child, childStatus, slaveOpen, ptyIn, winsize, ctlScript, ctlIn,
                   ctlEof, fed, effects, ptyRead, out, oob, fault>>

\* the child reads a byte from its terminal
ChildRead ==
    /\ child = "running"
    /\ slaveOpen
    /\ ptyIn # <<>>
    /\ ptyIn' = Tail(ptyIn)
    /\ UNCHANGED <<consumed, pc, exitCode, exitVia, p, stdin_open, readfds, io, off, status, waited, res,
                   child, childStatus, slaveOpen, ptyOut, childCnt, winsize, ctlScript, ctlIn,
                   ctlEof, fed, effects, ptyRead, out, oob, fault>>

\* the child closes its descriptors of the terminal and keeps running
ChildClosePty ==
    /\ child = "running"
    /\ slaveOpen
    /\ slaveOpen' = FALSE
    /\ UNCHANGED <<consumed, pc, exitCode, exitVia, p, stdin_open, readfds, io, off, status, waited, res,
                   child, childStatus, ptyIn, ptyOut, childCnt, winsize, ctlScript, ctlIn,
                   ctlEof, fed, effects, ptyRead, out, oob, fault>>

\* the child terminates: it exits or a signal kills it
ChildExit ==
    /\ child = "running"
    /\ \E st \in RunStatuses : childStatus' = st
    /\ child' = "zombie"
    /\ slaveOpen' = FALSE
    /\ UNCHANGED <<consumed, pc, exitCode, exitVia, p, stdin_open, readfds, io, off, status, waited, res,
                   ptyIn, ptyOut, childCnt, winsize, ctlScript, ctlIn,
                   ctlEof, fed, effects, ptyRead, out, oob, fault>>

\* ------------------------------------------------------------- bootstrap
\* if (argc < 2) return 2;
Main_Start ==
    /\ pc = "start"
    /\ \E argc \in {1, 2} :
         IF argc < 2 THEN Return(2, "argc")
         ELSE pc' = "openpty" /\ UNCHANGED <<exitCode, exitVia>>
    /\ UNCHANGED <<consumed, p, stdin_open, readfds, io, off, status, waited, res, child,
                   childStatus, slaveOpen, ptyIn, ptyOut, childCnt, winsize, ctlScript, ctlIn,
                   ctlEof, fed, effects, ptyRead, out, oob, fault>>

\* openpty(&master_fd, &slave_fd, ...)
Main_OpenPty ==
    /\ pc = "openpty"
    /\ \E ok \in BOOLEAN :
         IF ok
         THEN /\ res' = open_master(res)
              /\ slaveOpen' = TRUE
              /\ pc' = "fork"
              /\ UNCHANGED <<exitCode, exitVia>>
         ELSE /\ Return(1, "openpty")
              /\ UNCHANGED <<res, slaveOpen>>
    /\ fault' = IF pc' = "exited" THEN "openpty" ELSE fault
    /\ UNCHANGED <<consumed, p, stdin_open, readfds, io, off, status, waited, child,
                   childStatus, ptyIn, ptyOut, childCnt, winsize, ctlScript, ctlIn,
                   ctlEof, fed, effects, ptyRead, out, oob>>

\* fork(); the parent then closes slave_fd, which the child keeps open
Main_Fork ==
    /\ pc = "fork"
    /\ \E ok \in BOOLEAN :
         IF ok
         THEN /\ child' = "forked"
              /\ pc' = "init"
              /\ UNCHANGED <<exitCode, exitVia, res, slaveOpen>>
         ELSE /\ res' = close_master(res)
              /\ slaveOpen' = FALSE
              /\ Return(1, "fork")
              /\ UNCHANGED child
    /\ fault' = IF pc' = "exited" THEN "fork" ELSE fault
    /\ UNCHANGED <<consumed, p, stdin_open, readfds, io, off, status, waited,
                   childStatus, ptyIn, ptyOut, childCnt, winsize, ctlScript, ctlIn,
                   ctlEof, fed, effects, ptyRead, out, oob>>

\* parser_init(&p, 8192); bool stdin_open = true;
Main_ParserInit ==
    /\ pc = "init"
    /\ \E ok \in BOOLEAN :
         IF ok
         THEN /\ p' = parser_init(InitCap)
              /\ res' = create_buf(res)
              /\ pc' = "poll"
              /\ UNCHANGED <<exitCode, exitVia>>
         ELSE /\ res' = cleanup_init_fail(res)
              /\ Return(1, "init")
              /\ UNCHANGED p
    /\ fault' = IF pc' = "exited" THEN "malloc" ELSE fault
    /\ UNCHANGED <<consumed, stdin_open, readfds, io, off, status, waited, child,
                   childStatus, slaveOpen, ptyIn, ptyOut, childCnt, winsize, ctlScript, ctlIn,
                   ctlEof, fed, effects, ptyRead, out, oob>>

\* -------------------------------------------------------------- the loop
\* the branch taken after select: stdin first, then the master
AfterSelect(rf) == IF stdin_open /\ rf.in THEN "stdin" ELSE IF rf.master THEN "pty" ELSE "poll"

\* the branch taken once the stdin branch is done
AfterStdin(rf) == IF rf.master THEN "pty" ELSE "poll"

\* parser_deinit(&p); close(master_fd); return code;
Teardown(code, via) ==
    /\ p' = parser_deinit(p)
    /\ res' = teardown(res)
    /\ Return(code, via)

\* a liveness check that collects the status and goes on with the loop
Main_PollExit_goon ==
    /\ pc = "poll"
    /\ child = "zombie"
    /\ child' = "reaped"
    /\ status' = childStatus
    /\ waited' = ChildPid
    /\ pc' = "select"
    /\ UNCHANGED <<consumed, exitCode, exitVia, p, res, stdin_open, readfds, io, off,
                   childStatus, slaveOpen, ptyIn, ptyOut, childCnt, winsize, ctlScript, ctlIn,
                   ctlEof, fed, effects, ptyRead, out, oob, fault>>

\* waitpid(pid, &status, WNOHANG) returns pid: the child has terminated
Main_PollExit ==
    /\ pc = "poll"
    /\ child = "zombie"
    /\ child' = "reaped"
    /\ status' = childStatus
    /\ waited' = ChildPid
    /\ Teardown(child_exit_code(status'), "child_exit")
    /\ UNCHANGED <<consumed, stdin_open, readfds, io, off,
                   childStatus, slaveOpen, ptyIn, ptyOut, childCnt, winsize, ctlScript, ctlIn,
                   ctlEof, fed, effects, ptyRead, out, oob, fault>>

\* waitpid(pid, &status, WNOHANG) returns 0: the child is still there
Main_PollAlive ==
    /\ pc = "poll"
    /\ child # "zombie"
    /\ status' = 0
    /\ waited' = 0
    /\ pc' = "select"
    /\ UNCHANGED <<consumed, exitCode, exitVia, p, stdin_open, readfds, io, off, res, child,
                   childStatus, slaveOpen, ptyIn, ptyOut, childCnt, winsize, ctlScript, ctlIn,
                   ctlEof, fed, effects, ptyRead, out, oob, fault>>

\* select returns the descriptors that are readable
Main_Select ==
    /\ pc = "select"
    /\ (stdin_open /\ StdinReadable) \/ MasterReadable
    /\ readfds' = [in |-> stdin_open /\ StdinReadable, master |-> MasterReadable]
    /\ pc' = AfterSelect(readfds')
    /\ UNCHANGED <<consumed, exitCode, exitVia, p, stdin_open, io, off, status, waited, res, child,
                   childStatus, slaveOpen, ptyIn, ptyOut, childCnt, winsize, ctlScript, ctlIn,
                   ctlEof, fed, effects, ptyRead, out, oob, fault>>

\* select returns 0 after tv = 100 ms: nothing is readable
Main_SelectTimeout ==
    /\ pc = "select"
    /\ ~((stdin_open /\ StdinReadable) \/ MasterReadable)
    /\ readfds' = [in |-> FALSE, master |-> FALSE]
    /\ pc' = "poll"
    /\ UNCHANGED <<consumed, exitCode, exitVia, p, stdin_open, io, off, status, waited, res, child,
                   childStatus, slaveOpen, ptyIn, ptyOut, childCnt, winsize, ctlScript, ctlIn,
                   ctlEof, fed, effects, ptyRead, out, oob, fault>>

\* select fails with EINTR: continue
Main_SelectEintr ==
    /\ pc = "select"
    /\ pc' = "poll"
    /\ UNCHANGED <<consumed, exitCode, exitVia, p, stdin_open, readfds, io, off, status, waited, res, child,
                   childStatus, slaveOpen, ptyIn, ptyOut, childCnt, winsize, ctlScript, ctlIn,
                   ctlEof, fed, effects, ptyRead, out, oob, fault>>

\* select fails otherwise
Main_SelectFail ==
    /\ pc = "select"
    /\ Teardown(1, "select")
    /\ fault' = "select"
    /\ UNCHANGED <<consumed, stdin_open, readfds, io, off, status, waited, child,
                   childStatus, slaveOpen, ptyIn, ptyOut, childCnt, winsize, ctlScript, ctlIn,
                   ctlEof, fed, effects, ptyRead, out, oob>>

\* read(STDIN_FILENO) returns 0
Main_StdinEof ==
    /\ pc = "stdin"
    /\ ctlIn = <<>>
    /\ ctlScript = <<>>
    /\ ctlEof
    /\ stdin_open' = FALSE
    /\ pc' = AfterStdin(readfds)
    /\ UNCHANGED <<consumed, exitCode, exitVia, p, readfds, io, off, status, waited, res, child,
                   childStatus, slaveOpen, ptyIn, ptyOut, childCnt, winsize, ctlScript, ctlIn,
                   ctlEof, fed, effects, ptyRead, out, oob, fault>>

\* read(STDIN_FILENO) fails with EINTR: stdin stays open
Main_StdinEintr ==
    /\ pc = "stdin"
    /\ pc' = AfterStdin(readfds)
    /\ UNCHANGED <<consumed, exitCode, exitVia, p, stdin_open, readfds, io, off, status, waited, res, child,
                   childStatus, slaveOpen, ptyIn, ptyOut, childCnt, winsize, ctlScript, ctlIn,
                   ctlEof, fed, effects, ptyRead, out, oob, fault>>

\* read(STDIN_FILENO) fails otherwise
Main_StdinErr ==
    /\ pc = "stdin"
    /\ stdin_open' = FALSE
    /\ pc' = AfterStdin(readfds)
    /\ fault' = "read_stdin"
    /\ UNCHANGED <<consumed, exitCode, exitVia, p, readfds, io, off, status, waited, res, child,
                   childStatus, slaveOpen, ptyIn, ptyOut, childCnt, winsize, ctlScript, ctlIn,
                   ctlEof, fed, effects, ptyRead, out, oob>>

\* read(STDIN_FILENO, io_buf, sizeof(io_buf)) returns the queued bytes, which
\* parser_append adds to the buffer
Main_StdinData(allocOk) ==
    /\ pc = "stdin"
    /\ ctlIn # <<>>
    /\ LET k == Min(Len(ctlIn), IoBufSize)
           data == SubSeq(ctlIn, 1, k)
           a == parser_append(p, data, allocOk)
       IN    /\ ctlIn' = SubSeq(ctlIn, k + 1, Len(ctlIn))
             /\ fed' = fed \o data
             /\ fault' = IF a.ret # 0 THEN "realloc" ELSE fault
             /\ IF a.ret # 0
                THEN Teardown(1, "append")
                ELSE /\ p' = a.p
                     /\ pc' = "parse"
                     /\ UNCHANGED <<exitCode, exitVia, res>>
    /\ UNCHANGED <<consumed, stdin_open, readfds, io, off, status, waited, child,
                   childStatus, slaveOpen, ptyIn, ptyOut, childCnt, winsize,
                   ctlScript, ctlEof, effects, ptyRead, out, oob>>

\* ---------------------------------------------- parse_and_apply_frames
\* a caller that acts on signal_child's result
check_ret(ret) == ret

\* (void)signal_child(...): the result is dropped
void_ret(ret) == 0

\* a Close that leaves the loop
close_next_exit == "exited"

\* where the loop goes after a Close frame: continue
close_next == "parse"

\* the bytes write_all is given for a Data frame: p->buf + 5
Payload(buf) == SubSeq(buf, 6, Len(buf))

\* the log entries of the bytes one write call moved to the pty
WriteLog(bytes) == [i \in 1..Len(bytes) |-> <<"w", bytes[i]>>]

\* how many of the k bytes from src + off lie past the end of src
Overrun(src, o, k) == Cardinality({i \in 1..k : o + i > Len(src)})

\* the loop ends: the buffer is empty, or its front frame is incomplete
Parse_Return ==
    /\ pc = "parse"
    /\ FrontKind(p.buf) \in {"empty", "wait"}
    /\ pc' = AfterStdin(readfds)
    /\ UNCHANGED <<consumed, exitCode, exitVia, p, stdin_open, readfds, io, off, status, waited, res, child,
                   childStatus, slaveOpen, ptyIn, ptyOut, childCnt, winsize, ctlScript, ctlIn,
                   ctlEof, fed, effects, ptyRead, out, oob, fault>>

\* a Data frame passed the length check: write_all starts, or n = 0
Parse_Data ==
    /\ pc = "parse"
    /\ FrontKind(p.buf) = "data"
    /\ LET n == DataLen(p.buf)
       IN  IF n.hi > 0 \/ n.lo > 0
           THEN /\ pc' = "write_pty"
                /\ off' = 0
                /\ UNCHANGED <<p, consumed>>
           ELSE /\ p' = parser_consume(p, DataNeed(p.buf))
                /\ consumed' = consumed + Removed(p, DataNeed(p.buf))
                /\ pc' = "parse"
                /\ UNCHANGED off
    /\ UNCHANGED <<exitCode, exitVia, stdin_open, readfds, io, status, waited, res, child,
                   childStatus, slaveOpen, ptyIn, ptyOut, childCnt, winsize, ctlScript, ctlIn,
                   ctlEof, fed, effects, ptyRead, out, oob, fault>>

\* one write(master_fd, buf + 5 + off, n - off) that moves k bytes; after the
\* last one write_all returns 0 and the frame is consumed.  The write blocks
\* while the pty input queue is full.
Main_WritePty ==
    /\ pc = "write_pty"
    /\ slaveOpen
    /\ LET n == DataLen(p.buf)
           src == Payload(p.buf)
           room == PtyInCap - Len(ptyIn)
           left == IF n.hi > 0 THEN room ELSE n.lo - off
       IN  \E k \in 1..Min(room, left) :
             LET bytes == write_bytes(src, off, k)
             IN  /\ oob + Overrun(src, off, k) <= MaxOverrun
                 /\ oob' = oob + Overrun(src, off, k)
                 /\ ptyIn' = ptyIn \o bytes
                 /\ effects' = effects \o WriteLog(bytes)
                 /\ IF n.hi = 0 /\ off + k = n.lo
                    THEN /\ p' = parser_consume(p, DataNeed(p.buf))
                         /\ consumed' = consumed + Removed(p, DataNeed(p.buf))
                         /\ off' = 0
                         /\ pc' = "parse"
                    ELSE /\ off' = off + k
                         /\ UNCHANGED <<p, pc, consumed>>
    /\ UNCHANGED <<exitCode, exitVia, stdin_open, readfds, io, status, waited, res, child,
                   childStatus, slaveOpen, ptyOut, childCnt, winsize, ctlScript, ctlIn,
                   ctlEof, fed, ptyRead, out, fault>>

\* write(master_fd) fails with EINTR: write_all tries again
Main_WritePtyEintr ==
    /\ pc = "write_pty"
    /\ UNCHANGED vars

\* write(master_fd) fails otherwise: parse_and_apply_frames returns -1
Main_WritePtyFail ==
    /\ pc = "write_pty"
    /\ Teardown(1, "apply")
    /\ fault' = "write_pty"
    /\ UNCHANGED <<consumed, stdin_open, readfds, io, off, status, waited, child,
                   childStatus, slaveOpen, ptyIn, ptyOut, childCnt, winsize, ctlScript, ctlIn,
                   ctlEof, fed, effects, ptyRead, out, oob>>

\* a Resize frame: ioctl(TIOCSWINSZ), then SIGWINCH, then consume 5
Parse_Resize(ioctlOk, pgid, killOk) ==
    /\ pc = "parse"
    /\ FrontKind(p.buf) = "resize"
    /\ LET cols == be16(p.buf[2], p.buf[3])
           rows == be16(p.buf[4], p.buf[5])
           sig == signal_child(ChildPid, SIGWINCH, pgid, killOk)
       IN  IF ~ioctlOk
           THEN /\ Teardown(1, "apply")
                /\ fault' = "ioctl"
                /\ UNCHANGED <<winsize, effects, consumed>>
           ELSE /\ winsize' = <<cols, rows>>
                /\ fault' = IF sig.ret # 0 THEN "signal" ELSE fault
                /\ IF void_ret(sig.ret) # 0
                   THEN /\ effects' = Append(effects, <<"resize", cols, rows>>)
                        /\ Teardown(1, "apply")
                        /\ UNCHANGED consumed
                   ELSE /\ effects' = effects \o <<(<<"resize", cols, rows>>)>> \o
                                        (IF sig.sent = <<>> THEN <<>> ELSE <<sig.sent>>)
                        /\ p' = parser_consume(p, U32(0, 5))
                        /\ consumed' = consumed + Removed(p, U32(0, 5))
                        /\ pc' = "parse"
                        /\ UNCHANGED <<exitCode, exitVia, res>>
    /\ UNCHANGED <<stdin_open, readfds, io, off, status, waited, child,
                   childStatus, slaveOpen, ptyIn, ptyOut, childCnt, ctlScript, ctlIn,
                   ctlEof, fed, ptyRead, out, oob>>

\* a Close frame: SIGHUP, then consume 1
Parse_Close(pgid, killOk) ==
    /\ pc = "parse"
    /\ FrontKind(p.buf) = "close"
    /\ LET sig == signal_child(ChildPid, SIGHUP, pgid, killOk)
       IN  /\ fault' = IF sig.ret # 0 THEN "signal" ELSE fault
           /\ IF void_ret(sig.ret) # 0
              THEN /\ Teardown(1, "apply")
                   /\ UNCHANGED <<effects, consumed>>
              ELSE /\ effects' = effects \o (IF sig.sent = <<>> THEN <<>> ELSE <<sig.sent>>)
                   /\ p' = parser_consume(p, U32(0, 1))
                   /\ consumed' = consumed + Removed(p, U32(0, 1))
                   /\ pc' = close_next
                   /\ UNCHANGED <<exitCode, exitVia, res>>
    /\ UNCHANGED <<stdin_open, readfds, io, off, status, waited, child,
                   childStatus, slaveOpen, ptyIn, ptyOut, childCnt, winsize, ctlScript, ctlIn,
                   ctlEof, fed, ptyRead, out, oob>>

\* any other opcode: consume 1
Parse_Skip ==
    /\ pc = "parse"
    /\ FrontKind(p.buf) = "skip"
    /\ p' = parser_consume(p, U32(0, 1))
    /\ consumed' = consumed + Removed(p, U32(0, 1))
    /\ UNCHANGED <<pc, exitCode, exitVia, stdin_open, readfds, io, off, status, waited, res, child,
                   childStatus, slaveOpen, ptyIn, ptyOut, childCnt, winsize, ctlScript, ctlIn,
                   ctlEof, fed, effects, ptyRead, out, oob, fault>>

\* ------------------------------------------------- the pty output branch
\* read(master_fd) returns k bytes
Main_PtyReadData ==
    /\ pc = "pty"
    /\ ptyOut # <<>>
    /\ \E k \in 1..Min(Len(ptyOut), IoBufSize) :
         /\ io' = SubSeq(ptyOut, 1, k)
         /\ ptyOut' = SubSeq(ptyOut, k + 1, Len(ptyOut))
         /\ ptyRead' = ptyRead \o io'
    /\ off' = 0
    /\ pc' = "write_out"
    /\ UNCHANGED <<consumed, exitCode, exitVia, p, stdin_open, readfds, status, waited, res, child,
                   childStatus, slaveOpen, ptyIn, childCnt, winsize, ctlScript, ctlIn,
                   ctlEof, fed, effects, out, oob, fault>>

\* read(master_fd) returns 0: every descriptor of the slave is closed
Main_PtyReadEof ==
    /\ pc = "pty"
    /\ ptyOut = <<>>
    /\ ~slaveOpen
    /\ status' = 0
    /\ pc' = "wait"
    /\ UNCHANGED <<consumed, exitCode, exitVia, p, stdin_open, readfds, io, off, waited, res, child,
                   childStatus, slaveOpen, ptyIn, ptyOut, childCnt, winsize, ctlScript, ctlIn,
                   ctlEof, fed, effects, ptyRead, out, oob, fault>>

\* read(master_fd) fails with EINTR: continue
Main_PtyReadEintr ==
    /\ pc = "pty"
    /\ pc' = "poll"
    /\ UNCHANGED <<consumed, exitCode, exitVia, p, stdin_open, readfds, io, off, status, waited, res, child,
                   childStatus, slaveOpen, ptyIn, ptyOut, childCnt, winsize, ctlScript, ctlIn,
                   ctlEof, fed, effects, ptyRead, out, oob, fault>>

\* read(master_fd) fails otherwise
Main_PtyReadFail ==
    /\ pc = "pty"
    /\ Teardown(1, "ptyread")
    /\ fault' = "read_pty"
    /\ UNCHANGED <<consumed, stdin_open, readfds, io, off, status, waited, child,
                   childStatus, slaveOpen, ptyIn, ptyOut, childCnt, winsize, ctlScript, ctlIn,
                   ctlEof, fed, effects, ptyRead, out, oob>>

\* one write(STDOUT_FILENO, io_buf + off, n - off) that moves k bytes
Main_WriteOut ==
    /\ pc = "write_out"
    /\ \E k \in 1..(Len(io) - off) :
         /\ out' = out \o write_bytes(io, off, k)
         /\ IF off + k = Len(io)
            THEN off' = 0 /\ pc' = "poll"
            ELSE off' = off + k /\ UNCHANGED pc
    /\ UNCHANGED <<consumed, exitCode, exitVia, p, stdin_open, readfds, io, status, waited, res, child,
                   childStatus, slaveOpen, ptyIn, ptyOut, childCnt, winsize, ctlScript, ctlIn,
                   ctlEof, fed, effects, ptyRead, oob, fault>>

\* write(STDOUT_FILENO) fails with EINTR: write_all tries again
Main_WriteOutEintr ==
    /\ pc = "write_out"
    /\ UNCHANGED vars

\* write(STDOUT_FILENO) fails otherwise
Main_WriteOutFail ==
    /\ pc = "write_out"
    /\ Teardown(1, "outwrite")
    /\ fault' = "write_out"
    /\ UNCHANGED <<consumed, stdin_open, readfds, io, off, status, waited, child,
                   childStatus, slaveOpen, ptyIn, ptyOut, childCnt, winsize, ctlScript, ctlIn,
                   ctlEof, fed, effects, ptyRead, out, oob>>

\* (void)waitpid(pid, &status, 0) returns pid once the child has terminated
Main_WaitChild ==
    /\ pc = "wait"
    /\ child = "zombie"
    /\ child' = "reaped"
    /\ status' = childStatus
    /\ waited' = ChildPid
    /\ Teardown(child_exit_code(status'), "pty_eof")
    /\ UNCHANGED <<consumed, stdin_open, readfds, io, off,
                   childStatus, slaveOpen, ptyIn, ptyOut, childCnt, winsize, ctlScript, ctlIn,
                   ctlEof, fed, effects, ptyRead, out, oob, fault>>

\* (void)waitpid(pid, &status, 0) fails with EINTR: its result is not looked
\* at, and status is still the 0 it was initialised to
Main_WaitChildEintr ==
    /\ pc = "wait"
    /\ waited' = -1
    /\ Teardown(child_exit_code(status), "pty_eof")
    /\ UNCHANGED <<consumed, stdin_open, readfds, io, off, status, child,
                   childStatus, slaveOpen, ptyIn, ptyOut, childCnt, winsize, ctlScript, ctlIn,
                   ctlEof, fed, effects, ptyRead, out, oob, fault>>

\* ------------------------------------------------------- specifications
\* what getpgid and kill may answer
Pgids == {ChildPgid, -1}

ChildNext ==
    \/ ChildSetup
    \/ ChildSetupFail
    \/ ChildWrite
    \/ ChildRead
    \/ ChildClosePty
    \/ ChildExit

BridgeNext ==
    \/ Main_Start
    \/ Main_OpenPty
    \/ Main_Fork
    \/ Main_ParserInit
    \/ Main_PollExit
    \/ Main_PollAlive
    \/ Main_Select
    \/ Main_SelectTimeout
    \/ Main_SelectEintr
    \/ Main_SelectFail
    \/ Main_StdinEof
    \/ Main_StdinEintr
    \/ Main_StdinErr
    \/ \E allocOk \in BOOLEAN : Main_StdinData(allocOk)
    \/ Parse_Return
    \/ Parse_Data
    \/ Main_WritePty
    \/ Main_WritePtyEintr
    \/ Main_WritePtyFail
    \/ \E ioctlOk \in BOOLEAN, pgid \in Pgids, killOk \in BOOLEAN : Parse_Resize(ioctlOk, pgid, killOk)
    \/ \E pgid \in Pgids, killOk \in BOOLEAN : Parse_Close(pgid, killOk)
    \/ Parse_Skip
    \/ Main_PtyReadData
    \/ Main_PtyReadEof
    \/ Main_PtyReadEintr
    \/ Main_PtyReadFail
    \/ Main_WriteOut
    \/ Main_WriteOutEintr
    \/ Main_WriteOutFail
    \/ Main_WaitChild
    \/ Main_WaitChildEintr

Next == BridgeNext \/ ChildNext \/ ControllerWrite

\* the whole session, from the top of main
Spec == Init /\ [][Next]_vars

\* the decoder under a child that reads its input and a controller that sends
\* any short stream: no call fails
NextDec ==
    \/ Main_PollAlive
    \/ Main_Select
    \/ Main_SelectTimeout
    \/ Main_StdinData(TRUE)
    \/ Parse_Return
    \/ Parse_Data
    \/ Main_WritePty
    \/ Parse_Resize(TRUE, ChildPgid, TRUE)
    \/ Parse_Close(ChildPgid, TRUE)
    \/ Parse_Skip
    \/ ChildRead
    \/ ControllerWrite

SpecDec == InitDec /\ [][NextDec]_vars

\* ----------------------------------------------- the frame buffer alone
\* The capacities parser_init is called with: main passes 8192; the small
\* ones make every growth step happen on short inputs.
BufCaps == {1, 2, 3, InitCap}

\* a buffer that parser_init has just set up, outside of a session
InitBuf ==
    /\ InitCommon
    /\ pc = "buffer"
    /\ \E cap \in BufCaps : p = parser_init(cap)
    /\ res = create_buf(NoRes)
    /\ child = "none"
    /\ slaveOpen = FALSE
    /\ ctlScript = <<>>
    /\ ctlIn = <<>>
    /\ ctlEof = FALSE

\* the next n bytes of the input: each byte is its position in the stream
NextBytes(n) == [i \in 1..n |-> Len(fed) + i]

\* parser_append(&p, data, n)
Buf_Append(n, allocOk) ==
    /\ pc = "buffer"
    /\ Len(fed) + n <= MaxAppended
    /\ LET a == parser_append(p, NextBytes(n), allocOk)
       IN  /\ p' = a.p
           /\ fed' = IF a.ret = 0 THEN fed \o NextBytes(n) ELSE fed
           /\ fault' = IF a.ret # 0 THEN "realloc" ELSE fault
    /\ UNCHANGED <<pc, exitCode, exitVia, stdin_open, readfds, io, off, status, waited, res, child,
                   childStatus, slaveOpen, ptyIn, ptyOut, childCnt, winsize, ctlScript, ctlIn,
                   ctlEof, effects, ptyRead, out, oob, consumed>>

\* parser_consume(&p, k)
Buf_Consume(k) ==
    /\ pc = "buffer"
    /\ p' = parser_consume(p, U32(0, k))
    /\ consumed' = consumed + Removed(p, U32(0, k))
    /\ UNCHANGED <<pc, exitCode, exitVia, stdin_open, readfds, io, off, status, waited, res, child,
                   childStatus, slaveOpen, ptyIn, ptyOut, childCnt, winsize, ctlScript, ctlIn,
                   ctlEof, fed, effects, ptyRead, out, oob, fault>>

NextBuf ==
    \/ \E n \in 0..MaxAppended, allocOk \in BOOLEAN : Buf_Append(n, allocOk)
    \/ \E k \in 0..(MaxAppended + 1) : Buf_Consume(k)

\* any sequence of append and consume calls on one buffer
SpecBuf == InitBuf /\ [][NextBuf]_vars

\* ------------------------------------------------------------ the claims
IsPrefix(s, t) == Len(s) <= Len(t) /\ SubSeq(t, 1, Len(s)) = s

Range(s) == {s[i] : i \in 1..Len(s)}

\* the positions of main inside the loop
LoopPcs == {"poll", "select", "stdin", "parse", "write_pty", "pty", "write_out", "wait"}

\* every byte the child has written to the pty, in order
ChildOutput == [i \in 1..childCnt |-> i]

\* The decoder of the specification, section 4.2, run from the front of a
\* stream: a Data frame is complete when 5 + n bytes are there, the sum being
\* the integer sum (a length of 2^16 or more is never complete here).
RefDataComplete(s) == Len(s) >= 5 /\ s[2] = 0 /\ s[3] = 0 /\ Len(s) >= 5 + be16(s[4], s[5])

RECURSIVE RefEffects(_)
RefEffects(s) ==
    IF s = <<>> THEN <<>>
    ELSE IF s[1] = OPCODE_DATA
         THEN IF RefDataComplete(s)
              THEN LET n == be16(s[4], s[5])
                   IN  [i \in 1..n |-> <<"w", s[5 + i]>>] \o RefEffects(SubSeq(s, 6 + n, Len(s)))
              ELSE <<>>
    ELSE IF s[1] = OPCODE_RESIZE
         THEN IF Len(s) >= 5
              THEN <<(<<"resize", be16(s[2], s[3]), be16(s[4], s[5])>>), (<<"sig", SIGWINCH>>)>>
                       \o RefEffects(SubSeq(s, 6, Len(s)))
              ELSE <<>>
    ELSE IF s[1] = OPCODE_CLOSE
         THEN <<(<<"sig", SIGHUP>>)>> \o RefEffects(Tail(s))
    ELSE RefEffects(Tail(s))

RECURSIVE RefRest(_)
RefRest(s) ==
    IF s = <<>> THEN <<>>
    ELSE IF s[1] = OPCODE_DATA
         THEN IF RefDataComplete(s) THEN RefRest(SubSeq(s, 6 + be16(s[4], s[5]), Len(s))) ELSE s
    ELSE IF s[1] = OPCODE_RESIZE
         THEN IF Len(s) >= 5 THEN RefRest(SubSeq(s, 6, Len(s))) ELSE s
    ELSE RefRest(Tail(s))

\* the log with each delivered signal reduced to its number
Applied(log) ==
    [i \in 1..Len(log) |->
        IF log[i][1] \in {"kill", "killpg"} THEN <<"sig", log[i][3]>> ELSE log[i]]

\* C1: when the liveness check ends the session, everything the child wrote to
\* the pty has been written to controller output, and the exit code is the
\* child's mapped code.
C1_LivenessExitRelaysAll ==
    (pc = "exited" /\ exitVia = "child_exit") =>
        (out = ChildOutput /\ exitCode = child_exit_code(childStatus))

\* C2: write_all is started for a Data frame only when the buffer holds 5 + n
\* bytes, the sum being the integer sum, and no byte is read at or beyond the
\* buffer length.
C2_DataWithinBuffer ==
    /\ oob = 0
    /\ pc = "write_pty" => RefDataComplete(p.buf)

\* C3: the effects applied are those of the reference decoder on the bytes read
\* so far, in order; once the decoder has returned they are all of them and the
\* buffer holds what the reference decoder leaves.
C3_DecoderMatchesReference ==
    /\ IsPrefix(Applied(effects), RefEffects(fed))
    /\ pc \notin {"parse", "write_pty"} =>
          (Applied(effects) = RefEffects(fed) /\ p.buf = RefRest(fed))

\* C4: what has been written to controller output is a prefix of what has been
\* read from the pty master; between two reads it is all of it, and inside a
\* write_all exactly the bytes of the chunk not yet written are missing.
C4_RelayInOrder ==
    /\ IsPrefix(out, ptyRead)
    /\ IsPrefix(ptyRead, ChildOutput)
    /\ pc = "write_out" => out = SubSeq(ptyRead, 1, Len(ptyRead) - (Len(io) - off))
    /\ pc \in LoopPcs \ {"write_out"} => out = ptyRead

\* a write to controller output was partial and write_all has to go on
C4_Witness == pc = "write_out" /\ off = 1 /\ Len(io) = 2 /\ out = <<1>>

\* the calls whose failure ends the session
FatalFaults == {"openpty", "fork", "malloc", "realloc", "write_pty", "ioctl", "select", "read_pty", "write_out"}

\* C5: main returns only where the child was seen terminated, after a read of
\* the pty returned end-of-stream, or on a fatal error; a Close frame does not
\* end the loop, nor does end-of-stream or a read error on controller input;
\* once controller input is marked closed it is not selected or read again.
C5_ExitOnlyOnChildEofOrFatal ==
    [][ /\ (pc # "exited" /\ pc' = "exited") =>
              \/ pc = "poll" /\ child = "zombie" /\ exitVia' = "child_exit"
              \/ pc = "wait" /\ exitVia' = "pty_eof"
              \/ fault' \in FatalFaults /\ fault' # fault /\ exitCode' = 1
              \/ pc = "start" /\ exitVia' = "argc" /\ exitCode' = 2
        /\ (pc = "parse" /\ FrontKind(p.buf) = "close") => pc' # "exited"
        /\ (pc = "stdin" /\ pc' = "exited") => (fault' = "realloc" /\ fed' # fed)
        /\ (fault' = "read_stdin" /\ fault # "read_stdin") => (pc' # "exited" /\ ~stdin_open')
        /\ ~stdin_open =>
              /\ ~stdin_open'
              /\ fed' = fed
              /\ pc' # "stdin"
              /\ IsPrefix(ctlIn, ctlIn')
              /\ (pc = "select" /\ readfds' # readfds) => ~readfds'.in
      ]_vars

\* a Close frame was applied and controller input is closed, and the session
\* is still relaying pty output
C5_Witness ==
    /\ ~stdin_open
    /\ pc = "write_out"
    /\ <<"killpg", ChildPid, SIGHUP>> \in Range(effects)

\* C6: an interrupted call is retried and does not show in the outcome: when
\* the session ends after end-of-stream on the pty, the child's status was
\* collected and the exit code is its mapped code.
C6_EintrNeverSurfaces ==
    (pc = "exited" /\ exitVia = "pty_eof") =>
        (waited = ChildPid /\ exitCode = child_exit_code(childStatus))

\* C7: while the bridge writes a Data payload to the pty the write can go on:
\* the bridge is never stopped in a call other than the readiness wait.
C7_NeverBlockedInWrite ==
    (pc = "write_pty" /\ slaveOpen) => Len(ptyIn) < PtyInCap

\* C8: at exit the master is closed once if it was opened and the buffer is
\* freed once if it was created; before exit neither is released, and inside
\* the loop both are there.
C8_ReleasedExactlyOnce ==
    /\ pc = "exited" =>
          /\ res.masterCloses = (IF res.masterOpened THEN 1 ELSE 0)
          /\ res.bufFrees = (IF res.bufCreated THEN 1 ELSE 0)
          /\ ~p.live
    /\ pc # "exited" => (res.masterCloses = 0 /\ res.bufFrees = 0)
    /\ pc \in LoopPcs => (res.masterOpened /\ res.bufCreated /\ p.live)
    /\ p.live => res.bufCreated

\* parser_init failed after the master was opened, and the master is closed
C8_Witness ==
    /\ pc = "exited"
    /\ exitVia = "init"
    /\ res.masterOpened
    /\ res.masterCloses = 1
    /\ ~res.bufCreated

\* the calls the claim names: their failure ends the session with code 1
LoopFatalFaults == {"realloc", "write_pty", "ioctl", "select", "read_pty", "write_out"}

\* C9: once buffer growth, a write of a Data payload, the window-size ioctl,
\* select, a read of the pty or a write to controller output has failed, main
\* has returned 1, and every return from the loop that is not a collection of
\* the child's status returns 1; a step of the bridge on a Close frame, or on
\* a Resize frame whose window size was set, consumes the frame and goes on
\* with the exit code untouched, whatever signal_child returns.
C9_FatalErrorsExitOne ==
    [][ /\ fault' \in LoopFatalFaults => (pc' = "exited" /\ exitCode' = 1)
        /\ (pc \in {"select", "stdin", "parse", "write_pty", "pty", "write_out"} /\ pc' = "exited")
              => (exitCode' = 1 /\ fault' \in LoopFatalFaults)
        /\ fault' = "signal" => (pc' # "exited" \/ fault = "signal")
        /\ (pc = "parse" /\ FrontKind(p.buf) = "close" /\ (p' # p \/ pc' # pc))
              => (pc' = "parse" /\ exitCode' = exitCode /\ p'.buf = Tail(p.buf))
        /\ (pc = "parse" /\ FrontKind(p.buf) = "resize" /\ effects' # effects)
              => (pc' = "parse" /\ exitCode' = exitCode /\ p'.buf = SubSeq(p.buf, 6, Len(p.buf)))
      ]_vars

\* a Resize was applied without a SIGWINCH and a Close without a SIGHUP, the
\* loop went on, and a failed write to controller output then returned 1
C9_Witness ==
    /\ pc = "exited"
    /\ fault = "write_out"
    /\ exitCode = 1
    /\ effects = <<(<<"w", 97>>), (<<"w", 98>>), (<<"w", 99>>), (<<"resize", 80, 24>>)>>
    /\ fed = FramesStream

\* the exit code a wait status stands for, read off the way the status is
\* built: exit value v, or 128 + the terminating signal, or 1
ExpectedCode(st) ==
    IF \E v \in 0..255 : st = StatusExited(v)
    THEN CHOOSE v \in 0..255 : st = StatusExited(v)
    ELSE IF \E s \in 1..64, c \in BOOLEAN : st = StatusSignaled(s, c)
         THEN 128 + (CHOOSE s \in 1..64 : \E c \in BOOLEAN : st = StatusSignaled(s, c))
    ELSE 1

\* C10: child_exit_code maps exit value v to v, signal s to 128 + s and any
\* other status to 1; when main returns after a waitpid that returned the
\* child's pid, the exit code is that mapping of the child's status.
C10_ExitCodeMapping ==
    /\ \A v \in 0..255 : child_exit_code(StatusExited(v)) = v
    /\ \A s \in 1..64, c \in BOOLEAN : child_exit_code(StatusSignaled(s, c)) = 128 + s
    /\ \A s \in 1..64 : child_exit_code(StatusStopped(s)) = 1
    /\ child_exit_code(65535) = 1
    /\ (pc = "exited" /\ waited = ChildPid) => exitCode = ExpectedCode(childStatus)

\* the child was killed by signal 9 and the bridge returned 137
C10_Witness ==
    /\ pc = "exited"
    /\ waited = ChildPid
    /\ childStatus = StatusSignaled(9, FALSE)
    /\ exitCode = 137

\* a Data frame is at the front and its 5 + n bytes (integer sum) are not all
\* there, or a Resize frame is and its 5 bytes are not
RefIncomplete(buf) ==
    /\ Len(buf) > 0
    /\ \/ buf[1] = OPCODE_DATA /\ ~RefDataComplete(buf)
       \/ buf[1] = OPCODE_RESIZE /\ Len(buf) < 5

\* C11: every pass of the decoder loop that does not stop ends with a consume
\* that removes at least one byte, whatever the opcode and whatever the length
\* field of a Data frame, so the loop cannot go round on the same buffer.
C11_PassShortensBuffer ==
    /\ (pc = "write_pty" \/ (pc = "parse" /\ FrontKind(p.buf) = "data")) =>
          Len(parser_consume(p, DataNeed(p.buf)).buf) < Len(p.buf)
    /\ (pc = "parse" /\ FrontKind(p.buf) = "resize") =>
          Len(parser_consume(p, U32(0, 5)).buf) < Len(p.buf)
    /\ (pc = "parse" /\ FrontKind(p.buf) \in {"close", "skip"}) =>
          Len(parser_consume(p, U32(0, 1)).buf) < Len(p.buf)

\* C12: while the front of the buffer is an incomplete frame the decoder
\* applies nothing and consumes nothing: no pty write, no window size, no
\* signal, the buffer as it was; bytes read later go behind the kept bytes.
C12_PartialFrameStable ==
    [][ /\ (pc \in {"parse", "write_pty"} /\ RefIncomplete(p.buf)) =>
              /\ effects' = effects
              /\ winsize' = winsize
              /\ consumed' = consumed
              /\ p'.buf = p.buf
        /\ (pc = "stdin" /\ RefIncomplete(p.buf) /\ fed' # fed) =>
              p'.buf = p.buf \o SubSeq(fed', Len(fed) + 1, Len(fed'))
      ]_vars

\* C13: the buffer holds the appended bytes without the consumed prefix;
\* consume(k) leaves the suffix from offset k, or nothing when k is the length
\* or more; an append adds its bytes at the end and an empty one changes
\* nothing.
C13_BufferRoundTrip ==
    [][ /\ p'.buf = SubSeq(fed', consumed' + 1, Len(fed'))
        /\ consumed' <= Len(fed')
        /\ \A k \in 0..(MaxAppended + 1) :
              parser_consume(p, U32(0, k)).buf =
                  (IF k < Len(p.buf) THEN SubSeq(p.buf, k + 1, Len(p.buf)) ELSE <<>>)
        /\ fed' # fed => p'.buf = p.buf \o SubSeq(fed', Len(fed) + 1, Len(fed'))
        /\ parser_append(p, <<>>, TRUE) = [ret |-> 0, p |-> p]
        /\ parser_append(p, <<>>, FALSE) = [ret |-> 0, p |-> p]
      ]_vars

\* five bytes were appended in more than one call and three of them consumed
C13_Witness ==
    /\ pc = "buffer"
    /\ fed = <<1, 2, 3, 4, 5>>
    /\ consumed = 3
    /\ p.buf = <<4, 5>>
    /\ p.cap = 6

\* the capacities doubling reaches from cap
Doublings(cap) == {cap, cap * 2, cap * 4, cap * 8, cap * 16}

\* the smallest doubling of cap, cap itself excluded, that holds need bytes
SmallestDoubling(cap, need) ==
    CHOOSE c \in Doublings(cap) \ {cap} :
        /\ c >= need
        /\ \A d \in Doublings(cap) \ {cap} : d >= need => c <= d

\* C14: the length never exceeds the capacity and the capacity never goes
\* down; an append beyond the capacity sets it to the smallest doubling that
\* holds the new length, one within it leaves it alone; an append whose growth
\* fails reports -1 and leaves length, capacity and content as they were.
C14_CapacityInvariant ==
    [][ /\ Len(p.buf) <= p.cap
        /\ Len(p'.buf) <= p'.cap
        /\ p'.cap >= p.cap
        /\ fed' # fed =>
              p'.cap = (IF Len(p'.buf) > p.cap THEN SmallestDoubling(p.cap, Len(p'.buf)) ELSE p.cap)
        /\ fed' = fed => p'.cap = p.cap
        /\ (fed' = fed /\ consumed' = consumed) => p' = p
        /\ \A n \in 1..MaxAppended :
              LET a == parser_append(p, NextBytes(n), FALSE)
              IN  IF Len(p.buf) + n > p.cap
                  THEN a = [ret |-> -1, p |-> p]
                  ELSE a.ret = 0 /\ a.p.cap = p.cap
      ]_vars

\* a buffer of capacity 3 grew to 12 for seven bytes, and a later growth failed
C14_Witness ==
    /\ pc = "buffer"
    /\ p.cap = 12
    /\ Len(p.buf) = 7
    /\ fault = "realloc"

\* the signal entry a delivery to the child leaves in the log: to the group
\* when the child leads its own group, which it does once it has called setsid
Delivery(sig) ==
    IF child \in {"running", "zombie"} THEN <<"killpg", ChildPid, sig>> ELSE <<"kill", ChildPid, sig>>

\* C15: a step of the bridge on a Resize frame either sets the window size to
\* the big-endian columns and rows of the frame, then may deliver SIGWINCH,
\* and consumes 5 bytes, or, when the ioctl fails, delivers and consumes
\* nothing and returns 1; 02 00 50 00 18 is 80 columns and 24 rows.
C15_ResizeApplied ==
    [][ /\ be16(0, 80) = 80
        /\ be16(0, 24) = 24
        /\ (pc = "parse" /\ FrontKind(p.buf) = "resize" /\ (pc' # pc \/ p' # p)) =>
              LET cols == p.buf[2] * 256 + p.buf[3]
                  rows == p.buf[4] * 256 + p.buf[5]
              IN  IF fault' = "ioctl"
                  THEN /\ winsize' = winsize
                       /\ effects' = effects
                       /\ consumed' = consumed
                       /\ pc' = "exited"
                       /\ exitCode' = 1
                  ELSE /\ winsize' = <<cols, rows>>
                       /\ \/ effects' = Append(effects, <<"resize", cols, rows>>)
                          \/ effects' = effects \o <<(<<"resize", cols, rows>>), Delivery(SIGWINCH)>>
                       /\ consumed' = consumed + 5
                       /\ p'.buf = SubSeq(p.buf, 6, Len(p.buf))
                       /\ pc' = "parse"
                       /\ exitCode' = exitCode
      ]_vars

\* the Data frame and the Resize were applied: the window is 80 x 24, SIGWINCH
\* went to the child's group and 8 + 5 bytes are consumed
C15_Witness ==
    /\ pc = "parse"
    /\ winsize = <<80, 24>>
    /\ consumed = 13
    /\ effects[Len(effects)] = <<"killpg", ChildPid, SIGWINCH>>
    /\ effects[Len(effects) - 1] = <<"resize", 80, 24>>

\* C16: a signal delivered for a frame goes to the group when the child leads
\* its group at that moment and to the pid alone when it does not, whatever
\* an earlier delivery did; when getpgid fails nothing is sent.
C16_SignalResolvedAfresh ==
    [][ /\ \A i \in (Len(effects) + 1)..Len(effects') :
              effects'[i][1] \in {"kill", "killpg"} =>
                  /\ pc = "parse"
                  /\ effects'[i] = Delivery(IF FrontKind(p.buf) = "resize" THEN SIGWINCH ELSE SIGHUP)
        /\ \A sig \in {SIGHUP, SIGWINCH}, killOk \in BOOLEAN :
              signal_child(ChildPid, sig, -1, killOk) = [ret |-> -1, sent |-> <<>>]
      ]_vars

\* SIGWINCH went to the pid alone before the child had its own group, and the
\* SIGHUP that followed went to the group
C16_Witness ==
    /\ Len(effects) = 3
    /\ effects[2] = <<"kill", ChildPid, SIGWINCH>>
    /\ effects[3] = <<"killpg", ChildPid, SIGHUP>>

\* C17: after a read of the pty returned end-of-stream the bridge waits until
\* the child has terminated and returns its mapped exit code; in between it
\* relays nothing, reads no controller input and applies no frame.
C17_PtyEofWaitsForChild ==
    [][ /\ (pc = "pty" /\ pc' = "wait") => (ptyOut = <<>> /\ ~slaveOpen)
        /\ (pc = "wait" /\ pc' # pc) =>
              /\ pc' = "exited"
              /\ child = "zombie"
              /\ exitCode' = child_exit_code(childStatus)
        /\ pc = "wait" =>
              /\ out' = out
              /\ ptyRead' = ptyRead
              /\ fed' = fed
              /\ effects' = effects
      ]_vars

RECURSIVE Flatten(_)
Flatten(chunks) == IF chunks = <<>> THEN <<>> ELSE Head(chunks) \o Flatten(Tail(chunks))

\* the whole controller input of the run: read, queued and yet to be written
Stream == fed \o ctlIn \o Flatten(ctlScript)

\* The effects of the decoder when the whole stream s is in the buffer at
\* once, the child leading its group and no call failing.  A Data frame whose
\* length does not fit the buffer is written as far as the overrun bound goes.
RECURSIVE OneChunkEffects(_)
OneChunkEffects(s) ==
    LET kind == FrontKind(s)
        q == [buf |-> s]
    IN  IF kind \in {"empty", "wait"} THEN <<>>
        ELSE IF kind = "data"
             THEN IF DataLen(s).hi > 0
                  THEN [i \in 1..(Len(Payload(s)) + MaxOverrun) |-> <<"w", ByteAt(Payload(s), i)>>]
                  ELSE [i \in 1..DataLen(s).lo |-> <<"w", ByteAt(Payload(s), i)>>]
                           \o OneChunkEffects(parser_consume(q, DataNeed(s)).buf)
        ELSE IF kind = "resize"
             THEN <<(<<"resize", be16(s[2], s[3]), be16(s[4], s[5])>>), (<<"killpg", ChildPid, SIGWINCH>>)>>
                      \o OneChunkEffects(parser_consume(q, U32(0, 5)).buf)
        ELSE IF kind = "close"
             THEN <<(<<"killpg", ChildPid, SIGHUP>>)>> \o OneChunkEffects(parser_consume(q, U32(0, 1)).buf)
        ELSE OneChunkEffects(parser_consume(q, U32(0, 1)).buf)

\* what that run leaves in the buffer
RECURSIVE OneChunkRest(_)
OneChunkRest(s) ==
    LET kind == FrontKind(s)
        q == [buf |-> s]
    IN  IF kind \in {"empty", "wait"} THEN s
        ELSE IF kind = "data"
             THEN IF DataLen(s).hi > 0 THEN s ELSE OneChunkRest(parser_consume(q, DataNeed(s)).buf)
        ELSE IF kind = "resize" THEN OneChunkRest(parser_consume(q, U32(0, 5)).buf)
        ELSE OneChunkRest(parser_consume(q, U32(0, 1)).buf)

\* C18: however the stream is cut into reads, the effects applied so far are
\* the first of those the decoder applies when it gets the stream in one read,
\* and once the stream is read and decoded they are all of them and the buffer
\* is what that run leaves.
C18_ChunkingIndependent ==
    /\ IsPrefix(effects, OneChunkEffects(Stream))
    /\ (pc \notin {"parse", "write_pty"} /\ fed = Stream) =>
          (effects = OneChunkEffects(Stream) /\ p.buf = OneChunkRest(Stream))

\* C19: outside the decoder the buffer is empty or starts with an incomplete
\* frame: opcode 1 or 2 with fewer than 5 bytes, or opcode 1 with its header
\* and fewer than 5 + n bytes (integer sum); never opcode 3, never another
\* opcode, never a complete frame.
C19_DecoderPostCondition ==
    pc \in LoopPcs \ {"parse", "write_pty"} =>
        \/ p.buf = <<>>
        \/ p.buf[1] \in {OPCODE_DATA, OPCODE_RESIZE} /\ Len(p.buf) < 5
        \/ p.buf[1] = OPCODE_DATA /\ Len(p.buf) >= 5 /\ ~RefDataComplete(p.buf)

\* the decoder returned with the header of a Data frame and one of its three
\* payload bytes, and the session waits for readiness
C19_Witness ==
    /\ pc = "select"
    /\ p.buf = <<1, 0, 0, 0, 3, 97>>

\* C20: the step that collects the child's status is the step main returns in,
\* and once the status is collected no frame is applied and no signal sent.
C20_NoSignalAfterReaping ==
    [][ /\ child' = "reaped" => pc' = "exited"
        /\ waited' = ChildPid => pc' = "exited"
        /\ child = "reaped" => (effects' = effects /\ consumed' = consumed /\ pc' = "exited")
      ]_vars

\* the child got SIGHUP from a Close frame, terminated on it, and the blocking
\* wait after end-of-stream on the pty collected its status
C20_Witness ==
    /\ child = "reaped"
    /\ pc = "exited"
    /\ exitVia = "pty_eof"
    /\ childStatus = StatusSignaled(SIGHUP, FALSE)
    /\ <<"killpg", ChildPid, SIGHUP>> \in Range(effects)

====
